---- MODULE Spec2Model ----
(***************************************************************************)
(* A model of the Map_SDK assistant: the rule-based intent parser with its *)
(* generative-model fallback and JSON extraction                            *)
(* (assistant_agent_ollama.py), the tool adapters, and the two map backends *)
(* (dummy_map_server.py, openstreetmap_server.py).                          *)
(*                                                                          *)
(* Python values are tagged records [t |-> type, v |-> payload]; Python     *)
(* strings are TLA+ strings (TLC evaluates Len, SubSeq and \o on them); an  *)
(* exception that leaves a function is the value Raise(kind).               *)
(***************************************************************************)
EXTENDS Integers, Sequences, FiniteSets, TLC

VARIABLES
    pc,         \* position of the run loop / of the unit under call
    last_plan,  \* AssistantAgent.last_plan
    msg,        \* the text read by input() in the current turn
    llm_out,    \* what client.chat answered in the current turn; None when not invoked
    plan,       \* what interpret returned (or raised) in the current turn
    result,     \* what the dispatch step produced in the current turn
    last_before,\* history: last_plan as it was when the current turn began
    call,       \* the operation applied directly in the unit specifications
    ret         \* what that operation returned (or raised)

vars == <<pc, last_plan, msg, llm_out, plan, result, last_before, call, ret>>

----------------------------------------------------------------------------
(* Python values *)

\* an assignment to a local name: The({e : x \in {d}}) computes d once and
\* names its value x in e
The(S) == CHOOSE x \in S : TRUE

PyNone == [t |-> "none", v |-> 0]
PyBool(b) == [t |-> "bool", v |-> b]
PyInt(n) == [t |-> "int", v |-> n]
\* a float with value v * 10^-e
PyFloat(v, e) == [t |-> "float", v |-> v, e |-> e]
PyStr(s) == [t |-> "str", v |-> s]
PyList(xs) == [t |-> "list", v |-> xs]
Raise(kind) == [t |-> "raise", v |-> kind]
IsRaise(x) == x.t = "raise"

RECURSIVE DictKeys(_)
\* the keys of a sequence of <<key, value>> pairs, in order of first insertion
DictKeys(pairs) ==
    IF pairs = <<>> THEN <<>>
    ELSE The({IF \E i \in 1..Len(front) : front[i] = k THEN front ELSE Append(front, k) :
                 front \in {DictKeys(SubSeq(pairs, 1, Len(pairs) - 1))},
                 k \in {pairs[Len(pairs)][1]}})

\* a dict built by inserting the pairs in order: ks keeps the insertion order,
\* v maps each key to the value inserted last
PyDict(items) ==
    The({[t |-> "dict",
          ks |-> DictKeys(pairs),
          v |-> [k \in {pairs[i][1] : i \in 1..Len(pairs)} |->
                   pairs[CHOOSE i \in 1..Len(pairs) :
                             /\ pairs[i][1] = k
                             /\ \A j \in (i+1)..Len(pairs) : pairs[j][1] # k][2]]] :
            pairs \in {items}})

HasKey(d, k) == d.t = "dict" /\ k \in DOMAIN d.v
\* dict.get(k): None when the key is absent
Get(d, k) == IF k \in DOMAIN d.v THEN d.v[k] ELSE PyNone

\* bool(x)
Truthy(value) ==
    \E x \in {value} :
        CASE x.t = "none" -> FALSE
          [] x.t = "bool" -> x.v
          [] x.t = "int" -> x.v # 0
          [] x.t = "float" -> x.v # 0
          [] x.t = "str" -> x.v # ""
          [] x.t = "list" -> x.v # <<>>
          [] x.t = "dict" -> x.ks # <<>>
          [] OTHER -> TRUE

----------------------------------------------------------------------------
(* Python string operations *)

Ch(s, i) == SubSeq(s, i, i)
From(s, i) == SubSeq(s, i, Len(s))
StartsAt(s, i, p) == i + Len(p) - 1 <= Len(s) /\ SubSeq(s, i, i + Len(p) - 1) = p
\* p in s
Contains(text, part) ==
    \E s \in {text}, p \in {part} : \E i \in 1..(Len(s) + 1) : StartsAt(s, i, p)
\* s.find(p, i): the least index >= i where p occurs, 0 when there is none
Find(s, p, i) ==
    The({(IF at = {} THEN 0 ELSE CHOOSE j \in at : \A k \in at : j <= k) :
            at \in {{j \in i..(Len(s) + 1) : StartsAt(s, j, p)}}})

Whitespace == {" ", "\t", "\n", "\r"}
UpperCase == "ABCDEFGHIJKLMNOPQRSTUVWXYZ"
LowerCase == "abcdefghijklmnopqrstuvwxyz"
Digits == "0123456789"
IsDigit(c) == Contains(Digits, c) /\ Len(c) = 1
DigitVal(c) == Find(Digits, c, 1) - 1

LowerCh(c) ==
    The({(IF i = 0 THEN c ELSE Ch(LowerCase, i)) : i \in {Find(UpperCase, c, 1)}})

RECURSIVE lower(_)
\* str.lower()
lower(s) ==
    IF s = "" THEN ""
    ELSE The({LowerCh(c) \o lower(rest) : c \in {Ch(s, 1)}, rest \in {From(s, 2)}})

\* str.strip()
strip(text) ==
    The({(IF \A i \in 1..Len(s) : Ch(s, i) \in Whitespace THEN ""
          ELSE SubSeq(s,
                      CHOOSE i \in 1..Len(s) :
                          Ch(s, i) \notin Whitespace /\ \A j \in 1..(i - 1) : Ch(s, j) \in Whitespace,
                      CHOOSE i \in 1..Len(s) :
                          Ch(s, i) \notin Whitespace /\ \A j \in (i + 1)..Len(s) : Ch(s, j) \in Whitespace)) :
            s \in {text}})

RECURSIVE replace(_, _, _)
\* str.replace(old, new), old non-empty
replace(s, old, new) ==
    The({(IF i = 0 THEN s
          ELSE SubSeq(s, 1, i - 1) \o new \o The({replace(rest, old, new) : rest \in {From(s, i + Len(old))}})) :
            i \in {Find(s, old, 1)}})

RECURSIVE split(_, _)
\* str.split(sep), sep non-empty
split(s, sep) ==
    The({(IF i = 0 THEN <<s>>
          ELSE <<SubSeq(s, 1, i - 1)>> \o The({split(rest, sep) : rest \in {From(s, i + Len(sep))}})) :
            i \in {Find(s, sep, 1)}})

\* the part of s from index i up to the next newline: what a greedy (.*) takes
LineFrom(s, i) ==
    The({(IF n = 0 THEN From(s, i) ELSE SubSeq(s, i, n - 1)) : n \in {Find(s, "\n", i)}})

----------------------------------------------------------------------------
(* json.loads: objects, arrays, strings without escape sequences, integers,  *)
(* decimal fractions, true, false, null; the texts the model draws use no    *)
(* escapes and no exponents.                                                 *)

JsonWs == {" ", "\t", "\n", "\r"}

\* the least index >= i of s that holds no JSON whitespace (Len(s) + 1 at the end)
SkipWs(s, i) ==
    CHOOSE j \in i..(Len(s) + 1) :
        /\ j = Len(s) + 1 \/ Ch(s, j) \notin JsonWs
        /\ \A k \in i..(j - 1) : Ch(s, k) \in JsonWs

\* the least index >= i of s that holds no digit
SkipDigits(s, i) ==
    CHOOSE j \in i..(Len(s) + 1) :
        /\ j = Len(s) + 1 \/ ~IsDigit(Ch(s, j))
        /\ \A k \in i..(j - 1) : IsDigit(Ch(s, k))

RECURSIVE ToInt(_)
ToInt(ds) ==
    IF ds = "" THEN 0
    ELSE 10 * The({ToInt(front) : front \in {SubSeq(ds, 1, Len(ds) - 1)}})
         + DigitVal(Ch(ds, Len(ds)))

ParseFail == [ok |-> FALSE, val |-> PyNone, pos |-> 0]
ParseOk(v, p) == [ok |-> TRUE, val |-> v, pos |-> p]

\* a string literal whose opening quote is at i
ParseString(s, i) ==
    The({(IF j = 0 THEN ParseFail
          ELSE The({(IF \E k \in 1..Len(body) : Ch(body, k) \in {"\\", "\n", "\t", "\r"}
                     THEN ParseFail
                     ELSE ParseOk(PyStr(body), j + 1)) :
                        body \in {SubSeq(s, i + 1, j - 1)}})) :
            j \in {Find(s, "\"", i + 1)}})

\* the digits from index a on, as the number they spell: -? (0 | [1-9][0-9]*) (. [0-9]+)?
ParseDigits(s, a, sign) ==
    The({(IF b = a \/ (b - a > 1 /\ Ch(s, a) = "0") THEN ParseFail
          ELSE IF b <= Len(s) /\ Ch(s, b) = "."
          THEN The({(IF c = b + 1 THEN ParseOk(PyInt(sign * ToInt(SubSeq(s, a, b - 1))), b)
                     ELSE ParseOk(PyFloat(sign * ToInt(SubSeq(s, a, b - 1) \o SubSeq(s, b + 1, c - 1)),
                                          c - b - 1), c)) :
                        c \in {SkipDigits(s, b + 1)}})
          ELSE ParseOk(PyInt(sign * ToInt(SubSeq(s, a, b - 1))), b)) :
            b \in {SkipDigits(s, a)}})

\* a number that starts at i
ParseNumber(s, i) ==
    IF Ch(s, i) = "-" THEN ParseDigits(s, i + 1, -1) ELSE ParseDigits(s, i, 1)

RECURSIVE ParseValue(_, _), ParseMembers(_, _, _), ParseElems(_, _, _)

\* the JSON value that starts at index i of s (i holds no whitespace)
ParseValue(s, i) ==
    IF i > Len(s) THEN ParseFail
    ELSE The({(CASE c = "{" ->
                      The({(IF j <= Len(s) /\ Ch(s, j) = "}" THEN ParseOk(PyDict(<<>>), j + 1)
                            ELSE ParseMembers(s, j, <<>>)) : j \in {SkipWs(s, i + 1)}})
                 [] c = "[" ->
                      The({(IF j <= Len(s) /\ Ch(s, j) = "]" THEN ParseOk(PyList(<<>>), j + 1)
                            ELSE ParseElems(s, j, <<>>)) : j \in {SkipWs(s, i + 1)}})
                 [] c = "\"" -> ParseString(s, i)
                 [] StartsAt(s, i, "true") -> ParseOk(PyBool(TRUE), i + 4)
                 [] StartsAt(s, i, "false") -> ParseOk(PyBool(FALSE), i + 5)
                 [] StartsAt(s, i, "null") -> ParseOk(PyNone, i + 4)
                 [] c = "-" \/ IsDigit(c) -> ParseNumber(s, i)
                 [] OTHER -> ParseFail) :
                 c \in {Ch(s, i)}})

\* what follows a member or an element that ended before index e: the close
\* character ends the collection, a comma continues it
AfterItem(s, e, close) ==
    IF e > Len(s) THEN "fail"
    ELSE IF Ch(s, e) = close THEN "end"
    ELSE IF Ch(s, e) = "," THEN "more"
    ELSE "fail"

\* the value of the member whose key k was parsed, and the members behind it
ParseMemberValue(s, k, pairs) ==
    The({(IF c > Len(s) \/ Ch(s, c) # ":" THEN ParseFail
          ELSE The({(IF ~v.ok THEN ParseFail
                     ELSE The({(CASE AfterItem(s, e, "}") = "end" -> ParseOk(PyDict(now), e + 1)
                                  [] AfterItem(s, e, "}") = "more" ->
                                        The({ParseMembers(s, n, now) : n \in {SkipWs(s, e + 1)}})
                                  [] OTHER -> ParseFail) :
                                  e \in {SkipWs(s, v.pos)},
                                  now \in {Append(pairs, <<k.val.v, v.val>>)}})) :
                        v \in {The({ParseValue(s, n) : n \in {SkipWs(s, c + 1)}})}})) :
            c \in {SkipWs(s, k.pos)}})

\* the members of an object from index i (a key must start there), after pairs
ParseMembers(s, i, pairs) ==
    IF i > Len(s) \/ Ch(s, i) # "\"" THEN ParseFail
    ELSE The({(IF ~k.ok THEN ParseFail ELSE ParseMemberValue(s, k, pairs)) :
                 k \in {ParseString(s, i)}})

\* the elements of an array from index i, after elems
ParseElems(s, i, elems) ==
    The({(IF ~v.ok THEN ParseFail
          ELSE The({(CASE AfterItem(s, e, "]") = "end" -> ParseOk(PyList(now), e + 1)
                       [] AfterItem(s, e, "]") = "more" ->
                             The({ParseElems(s, n, now) : n \in {SkipWs(s, e + 1)}})
                       [] OTHER -> ParseFail) :
                       e \in {SkipWs(s, v.pos)}, now \in {Append(elems, v.val)}})) :
            v \in {ParseValue(s, i)}})

\* json.loads(text): the whole text must be one JSON value
json_loads(text) ==
    The({(IF r.ok /\ SkipWs(text, r.pos) > Len(text) THEN r.val
          ELSE Raise("JSONDecodeError")) :
            r \in {The({ParseValue(text, n) : n \in {SkipWs(text, 1)}})}})

RECURSIVE findall_braces(_, _)
\* re.findall(r"\{[\s\S]*?\}", text) from index i: each match runs from a "{"
\* to the nearest "}" after it, and the scan resumes behind the match
findall_braces(text, i) ==
    The({(IF a = 0 THEN <<>>
          ELSE The({(IF b = 0 THEN <<>>
                     ELSE <<SubSeq(text, a, b)>> \o findall_braces(text, b + 1)) :
                        b \in {Find(text, "}", a + 1)}})) :
            a \in {Find(text, "{", i)}})

\* the parse of the block at index i alone, none when it fails
OnlyBlockAt(blocks, i) ==
    IF i > Len(blocks) THEN PyNone
    ELSE The({(IF IsRaise(v) THEN PyNone ELSE v) : v \in {json_loads(blocks[i])}})

RECURSIVE FirstParsed(_, _)
\* lines 105-109: the first block from index i on that json.loads accepts
FirstParsed(blocks, i) ==
    IF i > Len(blocks) THEN PyNone
    ELSE The({(IF IsRaise(v) THEN FirstParsed(blocks, i + 1) ELSE v) :
                 v \in {json_loads(blocks[i])}})

\* AssistantAgent._extract_json
_extract_json(text) ==
    The({(IF ~IsRaise(whole) THEN whole
          ELSE The({FirstParsed(blocks, 1) : blocks \in {findall_braces(text, 1)}})) :
            whole \in {json_loads(text)}})

----------------------------------------------------------------------------
(* AssistantAgent.interpret *)

\* the least index >= i of s whose character is outside cs (Len(s) + 1 at the end)
SkipChars(s, i, cs) ==
    CHOOSE j \in i..(Len(s) + 1) :
        /\ j = Len(s) + 1 \/ Ch(s, j) \notin cs
        /\ \A k \in i..(j - 1) : Ch(s, k) \in cs

\* the two groups of line cut at the separators starting at the indices cuts
TwoGroups(line, sep, cuts) ==
    IF cuts = {} THEN [ok |-> FALSE, g1 |-> "", g2 |-> ""]
    ELSE The({[ok |-> TRUE, g1 |-> SubSeq(line, 1, i - 1), g2 |-> From(line, i + Len(sep))] :
                 i \in {CHOOSE c \in cuts : \A d \in cuts : d <= c}})

\* re.match(prefix + "(.+)" + sep + "(.+)", s): both groups stay on the first
\* line, and the greedy first group takes the last sep that leaves the second
\* group non-empty
MatchTwoGroups(s, prefix, sep) ==
    The({The({TwoGroups(line, sep, cuts) :
                 cuts \in {{i \in 2..Len(line) : StartsAt(line, i, sep) /\ i + Len(sep) <= Len(line)}}}) :
            line \in {IF StartsAt(s, 1, prefix) THEN LineFrom(s, Len(prefix) + 1) ELSE ""}})

\* re.match(r"where is (.+)", lower)
MatchWhereIs(low) ==
    The({[ok |-> g # "", g1 |-> g] :
            g \in {IF StartsAt(low, 1, "where is ") THEN LineFrom(low, 10) ELSE ""}})

CoordChars == {"0", "1", "2", "3", "4", "5", "6", "7", "8", "9", ".", "-"}

\* re.match(r"what is at ([0-9.\-]+)[ ,]+([0-9.\-]+)", lower)
MatchWhatIsAt(low) ==
    IF ~StartsAt(low, 1, "what is at ") THEN [ok |-> FALSE, g1 |-> "", g2 |-> ""]
    ELSE The({The({The({[ok |-> a > 12 /\ b > a /\ c > b,
                         g1 |-> SubSeq(low, 12, a - 1),
                         g2 |-> SubSeq(low, b, c - 1)] :
                           c \in {SkipChars(low, b, CoordChars)}}) :
                      b \in {SkipChars(low, a, {" ", ","})}}) :
                 a \in {SkipChars(low, 12, CoordChars)}})

\* re.search(r"matrix (for )?(.*)", lower): group 2 of the leftmost match
MatchMatrix(low) ==
    The({(IF i = 0 THEN [ok |-> FALSE, g2 |-> ""]
          ELSE [ok |-> TRUE,
                g2 |-> LineFrom(low, IF StartsAt(low, i + 7, "for ") THEN i + 11 ELSE i + 7)]) :
            i \in {Find(low, "matrix ", 1)}})

RECURSIVE StripNonEmpty(_)
\* [p.strip() for p in parts if p.strip()]
StripNonEmpty(parts) ==
    IF parts = <<>> THEN <<>>
    ELSE The({(IF p = "" THEN <<>> ELSE <<PyStr(p)>>) \o StripNonEmpty(rest) :
                 p \in {strip(Head(parts))}, rest \in {Tail(parts)}})

Plan(tool, action, params) ==
    PyDict(<< <<"tool", PyStr(tool)>>, <<"action", PyStr(action)>>, <<"params", PyDict(params)>> >>)

RepeatWords == {"again", "repeat", "same"}

\* x in container; TypeError when the container is not iterable
py_in(x, container) ==
    CASE container.t = "dict" -> PyBool(x \in DOMAIN container.v)
      [] container.t = "list" ->
            PyBool(\E i \in 1..Len(container.v) : container.v[i] = PyStr(x))
      [] container.t = "str" -> PyBool(Contains(container.v, x))
      [] OTHER -> Raise("TypeError")

\* lines 190-194: the test of the extracted value
Accept(last, answer, extracted) ==
    The({(IF IsRaise(has_tool) THEN [ret |-> has_tool, last |-> last, llm |-> TRUE]
          ELSE IF has_tool.v THEN [ret |-> extracted, last |-> extracted, llm |-> TRUE]
          ELSE [ret |-> PyDict(<< <<"error", PyStr("Failed to interpret")>>,
                                  <<"raw", answer>> >>),
                last |-> last, llm |-> TRUE]) :
            has_tool \in {IF Truthy(extracted) THEN py_in("tool", extracted) ELSE PyBool(FALSE)}})

\* lines 184-194: the model fallback. answer is what client.chat returns (a str)
\* or raises
Fallback(last, answer) ==
    IF IsRaise(answer) THEN [ret |-> answer, last |-> last, llm |-> TRUE]
    ELSE The({Accept(last, answer, extracted) : extracted \in {_extract_json(answer.v)}})

\* a rule returned p
Return(p) == [matched |-> TRUE, ret |-> p]

\* lines 159-167: the matrix rule
MatrixRule(low) ==
    The({The({(IF mx.ok /\ places # <<>>
               THEN Return(Plan("osm", "matrix", << <<"places", PyList(places)>> >>))
               ELSE Return(PyDict(<< <<"error", PyStr("Could not extract places for matrix.")>> >>))) :
                  places \in {StripNonEmpty(split(mx.g2, ","))}}) :
            mx \in {MatchMatrix(low)}})

\* lines 124-171 on the stripped and lowered text: the hard rules, in their order
RulesOn(low, last) ==
    The({(IF where.ok
          THEN Return(Plan("osm", "geocode",
                           << <<"query", PyStr(strip(replace(where.g1, "located", "")))>> >>))
          ELSE IF what.ok
          THEN Return(Plan("osm", "reverse_geocode",
                           << <<"lat", PyStr(what.g1)>>, <<"lon", PyStr(what.g2)>> >>))
          ELSE IF find.ok
          THEN Return(Plan("dummy", "poi",
                           << <<"query", PyStr(strip(find.g1))>>, <<"near", PyStr(strip(find.g2))>> >>))
          ELSE IF route.ok
          THEN Return(Plan("osm", "route",
                           << <<"origin", PyStr(strip(route.g1))>>,
                              <<"destination", PyStr(strip(route.g2))>> >>))
          ELSE IF Contains(low, "matrix")
          THEN MatrixRule(low)
          ELSE IF low \in RepeatWords /\ Truthy(last)
          THEN Return(last)
          ELSE [matched |-> FALSE, ret |-> PyNone]) :
            where \in {MatchWhereIs(low)},
            what \in {MatchWhatIsAt(low)},
            find \in {MatchTwoGroups(low, "find ", " near ")},
            route \in {MatchTwoGroups(low, "give me a route from ", " to ")}})

\* lines 117-171: matched tells whether one of the hard rules returned; ret is
\* what it returned
HardRules(message, last) ==
    The({RulesOn(low, last) : low \in {The({lower(raw) : raw \in {strip(message)}})}})

\* interpret(message) with self.last_plan = last: ret is the value returned (or
\* the exception raised), last the new self.last_plan, llm whether client.chat
\* was invoked; answer is what client.chat returns or raises when it is
interpret(message, last, answer) ==
    The({(IF hard.matched THEN [ret |-> hard.ret, last |-> last, llm |-> FALSE]
          ELSE Fallback(last, answer)) :
            hard \in {HardRules(message, last)}})

----------------------------------------------------------------------------
(* Floats: coordinates are kept in millionths of a degree *)

RECURSIVE Pow10(_)
Pow10(n) == IF n = 0 THEN 1 ELSE 10 * Pow10(n - 1)

Float(micro) == PyFloat(micro, 6)

\* float("nan"): the float that is no number, kept with no exponent
NaN == [t |-> "float", v |-> 0, e |-> -1]

IsNaN(x) == x.t = "float" /\ x.e < 0

\* the digits of a float literal without its sign: at most one point and at least
\* one digit; ValueError otherwise
DigitsToMicro(int, frac) ==
    IF int \o frac = "" \/ \E i \in 1..Len(int \o frac) : ~IsDigit(Ch(int \o frac, i))
    THEN Raise("ValueError")
    ELSE The({PyInt(ToInt(int) * 1000000 + ToInt(frac6) * Pow10(6 - Len(frac6))) :
                 frac6 \in {IF Len(frac) >= 6 THEN SubSeq(frac, 1, 6) ELSE frac}})

\* float(s) for a str without blanks around it
UnsignedToFloat(body, sign) ==
    The({The({(IF IsRaise(micro) THEN micro ELSE Float(sign * micro.v)) :
                 micro \in {IF dot = 0 THEN DigitsToMicro(body, "")
                            ELSE DigitsToMicro(SubSeq(body, 1, dot - 1), From(body, dot + 1))}}) :
            dot \in {Find(body, ".", 1)}})

\* float(s) for a str: optional sign, digits with at most one point and at least
\* one digit; ValueError otherwise
StrToFloat(text) ==
    The({(IF lower(s) \in {"nan", "+nan", "-nan"} THEN NaN
          ELSE IF s # "" /\ Ch(s, 1) \in {"-", "+"}
          THEN The({UnsignedToFloat(body, IF Ch(s, 1) = "-" THEN -1 ELSE 1) : body \in {From(s, 2)}})
          ELSE UnsignedToFloat(s, 1)) :
            s \in {strip(text)}})

\* float(x)
py_float(value) ==
    The({(CASE x.t = "float" ->
                 IF IsNaN(x) THEN NaN
                 ELSE Float(IF x.e <= 6 THEN x.v * Pow10(6 - x.e) ELSE x.v \div Pow10(x.e - 6))
            [] x.t = "int" -> Float(x.v * 1000000)
            [] x.t = "bool" -> Float(IF x.v THEN 1000000 ELSE 0)
            [] x.t = "str" -> StrToFloat(x.v)
            [] OTHER -> Raise("TypeError")) :
            x \in {value}})

\* the coordinates the model computes distances between: the four catalog
\* places and three more points
KnownPoints == <<
    [lat |-> 40785091, lon |-> -73968285],
    [lat |-> 40770000, lon |-> -73980000],
    [lat |-> 40775000, lon |-> -73970000],
    [lat |-> 40753200, lon |-> -73982200],
    [lat |-> 40780000, lon |-> -73960000],
    [lat |-> 40740000, lon |-> -73990000],
    [lat |-> 48856600, lon |-> 2352200] >>

\* the haversine formula of the source evaluated on KnownPoints: m is
\* round(dist, 3) in metres, min10 is round(dist / 50.0 * 60.0, 1) in tenths of
\* a minute, far is dist > 5.0
HaversineTable == <<
       <<[m |-> 0, min10 |-> 0, far |-> FALSE],
         [m |-> 1947, min10 |-> 23, far |-> FALSE],
         [m |-> 1131, min10 |-> 14, far |-> FALSE],
         [m |-> 3735, min10 |-> 45, far |-> FALSE],
         [m |-> 898, min10 |-> 11, far |-> FALSE],
         [m |-> 5337, min10 |-> 64, far |-> TRUE],
         [m |-> 5829924, min10 |-> 69959, far |-> TRUE]>>,
       <<[m |-> 1947, min10 |-> 23, far |-> FALSE],
         [m |-> 0, min10 |-> 0, far |-> FALSE],
         [m |-> 1009, min10 |-> 12, far |-> FALSE],
         [m |-> 1877, min10 |-> 23, far |-> FALSE],
         [m |-> 2018, min10 |-> 24, far |-> FALSE],
         [m |-> 3441, min10 |-> 41, far |-> FALSE],
         [m |-> 5831712, min10 |-> 69981, far |-> TRUE]>>,
       <<[m |-> 1131, min10 |-> 14, far |-> FALSE],
         [m |-> 1009, min10 |-> 12, far |-> FALSE],
         [m |-> 0, min10 |-> 0, far |-> FALSE],
         [m |-> 2633, min10 |-> 32, far |-> FALSE],
         [m |-> 1009, min10 |-> 12, far |-> FALSE],
         [m |-> 4241, min10 |-> 51, far |-> FALSE],
         [m |-> 5830704, min10 |-> 69968, far |-> TRUE]>>,
       <<[m |-> 3735, min10 |-> 45, far |-> FALSE],
         [m |-> 1877, min10 |-> 23, far |-> FALSE],
         [m |-> 2633, min10 |-> 32, far |-> FALSE],
         [m |-> 0, min10 |-> 0, far |-> FALSE],
         [m |-> 3518, min10 |-> 42, far |-> FALSE],
         [m |-> 1608, min10 |-> 19, far |-> FALSE],
         [m |-> 5832966, min10 |-> 69996, far |-> TRUE]>>,
       <<[m |-> 898, min10 |-> 11, far |-> FALSE],
         [m |-> 2018, min10 |-> 24, far |-> FALSE],
         [m |-> 1009, min10 |-> 12, far |-> FALSE],
         [m |-> 3518, min10 |-> 42, far |-> FALSE],
         [m |-> 0, min10 |-> 0, far |-> FALSE],
         [m |-> 5115, min10 |-> 61, far |-> TRUE],
         [m |-> 5829696, min10 |-> 69956, far |-> TRUE]>>,
       <<[m |-> 5337, min10 |-> 64, far |-> TRUE],
         [m |-> 3441, min10 |-> 41, far |-> FALSE],
         [m |-> 4241, min10 |-> 51, far |-> FALSE],
         [m |-> 1608, min10 |-> 19, far |-> FALSE],
         [m |-> 5115, min10 |-> 61, far |-> TRUE],
         [m |-> 0, min10 |-> 0, far |-> FALSE],
         [m |-> 5834364, min10 |-> 70012, far |-> TRUE]>>,
       <<[m |-> 5829924, min10 |-> 69959, far |-> TRUE],
         [m |-> 5831712, min10 |-> 69981, far |-> TRUE],
         [m |-> 5830704, min10 |-> 69968, far |-> TRUE],
         [m |-> 5832966, min10 |-> 69996, far |-> TRUE],
         [m |-> 5829696, min10 |-> 69956, far |-> TRUE],
         [m |-> 5834364, min10 |-> 70012, far |-> TRUE],
         [m |-> 0, min10 |-> 0, far |-> FALSE]>> >>

PointIndex(lat, lon) ==
    CHOOSE i \in 1..Len(KnownPoints) : KnownPoints[i] = [lat |-> lat, lon |-> lon]

\* the great-circle distance from coordinate a to coordinate b (dicts with
\* float lat and lon); from or to a coordinate that is no number the distance
\* is no number (m and min10 below zero) and the comparison dist > 5.0 is false
Haversine(a, b) ==
    IF \E c \in {a, b} : IsNaN(c.v["lat"]) \/ IsNaN(c.v["lon"])
    THEN [m |-> -1, min10 |-> -1, far |-> FALSE]
    ELSE HaversineTable[PointIndex(a.v["lat"].v, a.v["lon"].v)][PointIndex(b.v["lat"].v, b.v["lon"].v)]

\* round(x, e) of a count n of 10^-e units; n below zero stands for no number
Rounded(n, e) == IF n < 0 THEN NaN ELSE PyFloat(n, e)

\* a < b on floats of one exponent
FloatLt(a, b) == ~IsNaN(a) /\ ~IsNaN(b) /\ a.v < b.v

----------------------------------------------------------------------------
(* DummyMapServer *)

DummyPlaces == <<
    [name |-> "Central Park", lat |-> 40785091, lon |-> -73968285, category |-> "park"],
    [name |-> "Alice's Restaurant", lat |-> 40770000, lon |-> -73980000, category |-> "restaurant"],
    [name |-> "Bob's Coffee Shop", lat |-> 40775000, lon |-> -73970000, category |-> "cafe"],
    [name |-> "City Library", lat |-> 40753200, lon |-> -73982200, category |-> "library"] >>

CategorySynonyms ==
    [restaurant |-> <<"restaurant", "restaurants", "food", "dining", "eat">>,
     cafe |-> <<"cafe", "cafes", "coffee", "coffeeshop">>,
     library |-> <<"library", "libraries", "books">>,
     park |-> <<"park", "parks">>]

RECURSIVE SelectSeq2(_, _)
\* the subsequence of 1..n whose elements are in the set keep, in order
SelectSeq2(n, keep) ==
    IF n = 0 THEN <<>>
    ELSE SelectSeq2(n - 1, keep) \o (IF n \in keep THEN <<n>> ELSE <<>>)

\* the result entry of geocode for the i-th place
GeocodeEntry(i) ==
    PyDict(<< <<"name", PyStr(DummyPlaces[i].name)>>,
              <<"lat", Float(DummyPlaces[i].lat)>>,
              <<"lon", Float(DummyPlaces[i].lon)>> >>)

\* the lowered names of the places
LowerNames == [i \in 1..Len(DummyPlaces) |-> lower(DummyPlaces[i].name)]

\* DummyMapServer.geocode
DummyGeocode(query) ==
    IF ~Truthy(query) THEN PyList(<<>>)
    ELSE IF query.t # "str" THEN Raise("AttributeError")
    ELSE The({The({PyList([k \in 1..Len(hits) |-> GeocodeEntry(hits[k])]) :
                      hits \in {SelectSeq2(Len(DummyPlaces),
                                           {i \in 1..Len(DummyPlaces) : Contains(LowerNames[i], q)})}}) :
                 q \in {lower(query.v)}})

\* {"lat": float(a), "lon": float(b)}
CoordOf(a, b) ==
    The({(IF IsRaise(lat) THEN lat
          ELSE IF IsRaise(lon) THEN lon
          ELSE PyDict(<< <<"lat", lat>>, <<"lon", lon>> >>)) :
            lat \in {py_float(a)}, lon \in {py_float(b)}})

\* the branches of _resolve for a location that is no str
ResolveCoords(loc) ==
    IF loc.t = "list" /\ Len(loc.v) = 2 THEN CoordOf(loc.v[1], loc.v[2])
    ELSE IF loc.t = "dict" /\ "lat" \in DOMAIN loc.v /\ "lon" \in DOMAIN loc.v
    THEN CoordOf(loc.v["lat"], loc.v["lon"])
    ELSE PyNone

\* res[0] if res else None
FirstOrNone(res) == IF Truthy(res) THEN res.v[1] ELSE PyNone

\* DummyMapServer._resolve
DummyResolve(loc) ==
    IF loc.t = "str"
    THEN The({(IF IsRaise(res) THEN res ELSE FirstOrNone(res)) : res \in {DummyGeocode(loc)}})
    ELSE ResolveCoords(loc)

\* DummyMapServer.route
DummyRoute(origin, destination) ==
    The({(IF IsRaise(orig) THEN orig
          ELSE IF IsRaise(dest) THEN dest
          ELSE IF ~Truthy(orig) \/ ~Truthy(dest)
          THEN PyDict(<< <<"error", PyStr("Origin or destination not found.")>> >>)
          ELSE The({PyDict(<< <<"distance_km", Rounded(h.m, 3)>>,
                              <<"duration_min", Rounded(h.min10, 1)>> >>) :
                       h \in {Haversine(orig, dest)}})) :
            orig \in {DummyResolve(origin)}, dest \in {DummyResolve(destination)}})

\* the text kept as it is
KeepTrailingS(s) == s

RECURSIVE rstrip_s(_)
\* str.rstrip("s")
rstrip_s(s) ==
    IF s # "" /\ Ch(s, Len(s)) = "s"
    THEN The({rstrip_s(front) : front \in {SubSeq(s, 1, Len(s) - 1)}})
    ELSE s

RECURSIVE SortByDistance(_)
\* list.sort(key=distance_km): a stable insertion of each entry behind those
\* that are not farther
SortByDistance(rs) ==
    IF rs = <<>> THEN <<>>
    ELSE The({The({SubSeq(front, 1, n) \o <<x>> \o SubSeq(front, n + 1, Len(front)) :
                      n \in {Cardinality({i \in 1..Len(front) :
                                 ~FloatLt(x.v["distance_km"], front[i].v["distance_km"])})}}) :
                 front \in {SortByDistance(SubSeq(rs, 1, Len(rs) - 1))},
                 x \in {rs[Len(rs)]}})

\* lines 100-108: the place matches the query by name or by category
Matches(i, q, q_base) ==
    \/ Contains(LowerNames[i], q)
    \/ \E k \in 1..Len(CategorySynonyms[DummyPlaces[i].category]) :
           q_base = rstrip_s(CategorySynonyms[DummyPlaces[i].category][k])

\* the coordinate of the i-th place
Here(i) == PyDict(<< <<"lat", Float(DummyPlaces[i].lat)>>, <<"lon", Float(DummyPlaces[i].lon)>> >>)

\* lines 126-139: the result entry of the i-th place
Entry(i, center) ==
    PyDict(<< <<"name", PyStr(DummyPlaces[i].name)>>,
              <<"category", PyStr(DummyPlaces[i].category)>>,
              <<"lat", Float(DummyPlaces[i].lat)>>, <<"lon", Float(DummyPlaces[i].lon)>> >>
           \o (IF Truthy(center)
               THEN << <<"distance_km", Rounded(Haversine(center, Here(i)).m, 3)>> >>
               ELSE <<>>))

\* lines 97-144 of search_poi: the loop over the places, and the sort
PoiResults(q, q_base, center) ==
    The({The({PyList(IF Truthy(center) THEN SortByDistance(results) ELSE results) :
                 results \in {[k \in 1..Len(kept) |-> Entry(kept[k], center)]}}) :
            kept \in {SelectSeq2(Len(DummyPlaces),
                         {i \in 1..Len(DummyPlaces) :
                             /\ Matches(i, q, q_base)
                             /\ Truthy(center) => ~Haversine(center, Here(i)).far})}})

\* DummyMapServer.search_poi
search_poi(query, near) ==
    IF ~Truthy(query) THEN PyList(<<>>)
    ELSE IF query.t # "str" THEN Raise("AttributeError")
    ELSE The({(IF IsRaise(center) THEN center
               ELSE The({PoiResults(q, q_base, center) : q_base \in {rstrip_s(q)}})) :
                 q \in {strip(lower(query.v))},
                 center \in {IF Truthy(near) THEN DummyResolve(near) ELSE PyNone}})

----------------------------------------------------------------------------
(* OpenStreetMapServer. Every HTTP request has an outcome chosen by the      *)
(* environment: net.geo[k] for the k-th Nominatim search of an operation,    *)
(* net.other for its one request to another endpoint.                        *)

\* what _request_json returns when the transport raises (lines 69-70); the
\* outcome "fail_mute" is a transport that raises an exception whose str() is
\* empty, as TimeoutError() is
TransportError == PyDict(<< <<"error", PyStr("boom")>>, <<"url", PyStr("url")>> >>)

NominatimItem(name, lat, lon) ==
    PyDict(<< <<"display_name", PyStr(name)>>, <<"lat", PyStr(lat)>>, <<"lon", PyStr(lon)>> >>)

\* _request_json on the Nominatim search endpoint
SearchResponse(outcome) ==
    CASE outcome = "fail" -> TransportError
      [] outcome = "fail_mute" -> PyDict(<< <<"error", PyStr("")>>, <<"url", PyStr("url")>> >>)
      [] outcome = "none" -> PyList(<<>>)
      [] outcome = "one" -> PyList(<<NominatimItem("Paris, France", "48.8566", "2.3522")>>)
      [] outcome = "junk_then_one" ->
            PyList(<<PyDict(<< <<"display_name", PyStr("Nowhere")>> >>),
                     NominatimItem("Broken", "n/a", "2.0"),
                     NominatimItem("Berlin", "52.52", "13.405")>>)

\* _request_json on the Nominatim reverse endpoint
ReverseResponse(outcome) ==
    CASE outcome = "fail" -> TransportError
      [] outcome = "ok" -> PyDict(<< <<"display_name", PyStr("Somewhere")>> >>)
      [] outcome = "empty" -> PyDict(<< <<"error", PyStr("Unable to geocode")>> >>)

\* _request_json on the OSRM route endpoint
RouteResponse(outcome) ==
    CASE outcome = "fail" -> TransportError
      [] outcome = "ok" ->
            PyDict(<< <<"routes", PyList(<<PyDict(<< <<"distance", PyInt(1050000)>>,
                                                     <<"duration", PyInt(36000)>> >>)>>)>> >>)
      [] outcome = "empty" -> PyDict(<< <<"code", PyStr("NoRoute")>>, <<"routes", PyList(<<>>)>> >>)

\* _request_json on the OSRM table endpoint
TableResponse(outcome) ==
    CASE outcome = "fail" -> TransportError
      [] outcome = "ok" ->
            PyDict(<< <<"durations", PyList(<<PyList(<<PyInt(0), PyInt(1)>>),
                                              PyList(<<PyInt(1), PyInt(0)>>)>>)>>,
                      <<"distances", PyList(<<PyList(<<PyInt(0), PyInt(10)>>),
                                              PyList(<<PyInt(10), PyInt(0)>>)>>)>> >>)
      [] outcome = "empty" -> PyDict(<< <<"code", PyStr("Ok")>> >>)

\* isinstance(data, dict) and data.get("error")
IsErrorDict(data) == data.t = "dict" /\ Truthy(Get(data, "error"))

\* lines 95-103: the result entry of item i, or nothing when it lacks lat or lon
\* or one of them is no float; an item that is a str (a key of a mapping that
\* is iterated) either lacks a part "lat" or "lon" or has no method get
GeocodeItem(i) ==
    IF i.t = "str" THEN <<>>
    ELSE IF "lat" \notin DOMAIN i.v \/ "lon" \notin DOMAIN i.v THEN <<>>
    ELSE The({(IF IsRaise(lat) \/ IsRaise(lon) THEN <<>>
               ELSE <<PyDict(<< <<"display_name",
                                  IF "display_name" \in DOMAIN i.v THEN i.v["display_name"]
                                  ELSE PyStr("")>>,
                                <<"lat", lat>>, <<"lon", lon>> >>)>>) :
                 lat \in {py_float(i.v["lat"])}, lon \in {py_float(i.v["lon"])}})

RECURSIVE GeocodeResults(_)
\* lines 93-104: the items that carry lat and lon, both convertible to float
GeocodeResults(items) ==
    IF items = <<>> THEN <<>>
    ELSE The({GeocodeItem(i) \o GeocodeResults(rest) : i \in {Head(items)}, rest \in {Tail(items)}})

\* OpenStreetMapServer.geocode; outcome is that of its request
OsmGeocode(address, outcome) ==
    IF ~Truthy(address) THEN PyList(<<>>)
    ELSE The({(IF IsErrorDict(data)
               THEN PyList(<<PyDict(<< <<"error", data.v["error"]>> >>)>>)
               ELSE PyList(GeocodeResults(IF data.t = "dict" THEN [k \in 1..Len(data.ks) |-> PyStr(data.ks[k])]
                                          ELSE data.v))) :
                 data \in {SearchResponse(outcome)}})

\* OpenStreetMapServer._resolve; outcome is that of the geocode request, if any
OsmResolve(loc, outcome) ==
    IF loc.t = "str" THEN The({FirstOrNone(res) : res \in {OsmGeocode(loc, outcome)}})
    ELSE ResolveCoords(loc)

\* whether _resolve(loc) sends a request
Requests(loc) == IF loc.t = "str" /\ Truthy(loc) THEN 1 ELSE 0

\* the outcome of the k-th Nominatim search of an operation
GeoAt(net, k) == net.geo[IF k <= Len(net.geo) THEN k ELSE Len(net.geo)]

\* c['lon'], c['lat'] for a resolved coordinate
HasLatLon(c) == "lat" \in DOMAIN c.v /\ "lon" \in DOMAIN c.v

\* OpenStreetMapServer.reverse_geocode
OsmReverseGeocode(lat, lon, net) ==
    The({(IF IsErrorDict(data) THEN data
          ELSE PyDict(<< <<"display_name",
                           IF "display_name" \in DOMAIN data.v THEN data.v["display_name"]
                           ELSE PyStr("unknown")>>,
                         <<"lat", lat>>, <<"lon", lon>> >>)) :
            data \in {ReverseResponse(net.other)}})

\* lines 130-141: the request for the route from orig to dest, and its summary
RouteBetween(orig, dest, net) ==
    IF ~HasLatLon(orig) \/ ~HasLatLon(dest) THEN Raise("KeyError")
    ELSE The({(IF IsErrorDict(data) THEN data
               ELSE IF ~Truthy(Get(data, "routes"))
               THEN PyDict(<< <<"error", PyStr("No route found.")>> >>)
               ELSE The({PyDict(<< <<"distance_km", PyFloat(route.v["distance"].v, 3)>>,
                                   <<"duration_min",
                                     PyFloat((route.v["duration"].v + 3) \div 6, 1)>> >>) :
                            route \in {data.v["routes"].v[1]}})) :
                 data \in {RouteResponse(net.other)}})

\* OpenStreetMapServer.route
OsmRoute(origin, destination, net) ==
    The({(IF IsRaise(orig) THEN orig
          ELSE IF IsRaise(dest) THEN dest
          ELSE IF ~Truthy(orig) \/ ~Truthy(dest)
          THEN PyDict(<< <<"error", PyStr("Could not resolve origin or destination.")>> >>)
          ELSE RouteBetween(orig, dest, net)) :
            orig \in {OsmResolve(origin, GeoAt(net, 1))},
            dest \in {OsmResolve(destination, GeoAt(net, 1 + Requests(origin)))}})

\* the items a for loop takes from x, as a list; TypeError when x is not iterable
Iterate(x) ==
    CASE x.t = "list" -> x
      [] x.t = "str" -> PyList([i \in 1..Len(x.v) |-> PyStr(Ch(x.v, i))])
      [] x.t = "dict" -> PyList([i \in 1..Len(x.ks) |-> PyStr(x.ks[i])])
      [] OTHER -> Raise("TypeError")

\* repr(x): a str in quotes; other values by their type
PyRepr(x) == IF x.t = "str" THEN "'" \o x.v \o "'" ELSE "<" \o x.t \o ">"

RECURSIVE ResolveAll(_, _, _, _)
\* lines 151-155: the loop over places from the k-th on, after n requests; it
\* ends with the coordinates, or with the first error or exception; asked is
\* the number of Nominatim requests sent when it ends
ResolveAll(places, k, n, net) ==
    IF k > Len(places) THEN [stop |-> FALSE, out |-> PyNone, coords |-> <<>>, asked |-> n]
    ELSE The({(IF IsRaise(r)
               THEN [stop |-> TRUE, out |-> r, coords |-> <<>>, asked |-> n + Requests(places[k])]
               ELSE IF ~Truthy(r)
               THEN [stop |-> TRUE,
                     out |-> PyDict(<< <<"error", PyStr("Could not resolve place: "
                                                            \o PyRepr(places[k]))>> >>),
                     coords |-> <<>>, asked |-> n + Requests(places[k])]
               ELSE The({[stop |-> rest.stop, out |-> rest.out, coords |-> <<r>> \o rest.coords,
                          asked |-> rest.asked] :
                            rest \in {The({ResolveAll(places, k + 1, m, net) :
                                              m \in {n + Requests(places[k])}})}})) :
                 r \in {OsmResolve(places[k], GeoAt(net, n + 1))}})

\* lines 156-166: the request for the table of the coordinates, and its summary
TableOf(coords, net) ==
    IF \E i \in 1..Len(coords) : ~HasLatLon(coords[i]) THEN Raise("KeyError")
    ELSE The({(IF IsErrorDict(data) THEN data
               ELSE IF ~Truthy(data) \/ "durations" \notin DOMAIN data.v
               THEN PyDict(<< <<"error", PyStr("No matrix returned.")>> >>)
               ELSE PyDict(<< <<"durations_s", data.v["durations"]>>,
                              <<"distances_m", Get(data, "distances")>> >>)) :
                 data \in {TableResponse(net.other)}})

\* OpenStreetMapServer.matrix
OsmMatrix(places, net) ==
    The({(IF IsRaise(items) THEN items
          ELSE The({(IF all.stop THEN all.out ELSE TableOf(all.coords, net)) :
                       all \in {ResolveAll(items.v, 1, 0, net)}})) :
            items \in {Iterate(places)}})

\* the requests matrix sends: geo is the number of Nominatim searches, table
\* whether the request to the OSRM table service (line 158) is reached
MatrixRequests(places, net) ==
    The({(IF IsRaise(items) THEN [geo |-> 0, table |-> FALSE]
          ELSE The({[geo |-> all.asked,
                     table |-> ~all.stop /\ \A i \in 1..Len(all.coords) : HasLatLon(all.coords[i])] :
                       all \in {ResolveAll(items.v, 1, 0, net)}})) :
            items \in {Iterate(places)}})

----------------------------------------------------------------------------
(* The tool adapters *)

\* str(x) inside an f-string: a str as it is; other values by their type
PyText(x) == IF x.t = "str" THEN x.v ELSE "<" \o x.t \o ">"

\* except Exception as e: return {"error": str(e)}
ErrorOf(e) == PyDict(<< <<"error", PyStr(e.v)>> >>)

\* the body of run without its try/except: an exception leaves run
TryExceptMissing(outcome) == outcome

\* the try/except around the body of a tool's run
TryExcept(outcome) == The({(IF IsRaise(r) THEN ErrorOf(r) ELSE r) : r \in {outcome}})

\* kwargs["k"]: KeyError when absent
Item(kwargs, k) == IF k \in DOMAIN kwargs.v THEN kwargs.v[k] ELSE Raise("KeyError")

\* lines 41-42: the poi action
PoiAction(kwargs) ==
    The({(IF IsRaise(res) \/ Truthy(res) THEN res
          ELSE PyDict(<< <<"message", PyStr("No places found matching your search.")>> >>)) :
            res \in {search_poi(Get(kwargs, "query"), Get(kwargs, "near"))}})

\* the body of DummyMapTool.run (lines 33-44)
DummyToolBody(action, kwargs) ==
    CASE action = PyStr("geocode") -> DummyGeocode(Get(kwargs, "query"))
      [] action = PyStr("route") -> DummyRoute(Get(kwargs, "origin"), Get(kwargs, "destination"))
      [] action = PyStr("poi") -> PoiAction(kwargs)
      [] OTHER -> PyDict(<< <<"error", PyStr("Unknown action: " \o PyText(action))>> >>)

\* DummyMapTool.run
DummyToolRun(action, kwargs) == TryExcept(DummyToolBody(action, kwargs))

\* float(kwargs["k"])
FloatItem(kwargs, k) ==
    The({(IF IsRaise(x) THEN x ELSE py_float(x)) : x \in {Item(kwargs, k)}})

\* lines 63-64: the reverse_geocode action
ReverseAction(kwargs, net) ==
    The({(IF IsRaise(lat) THEN lat
          ELSE IF IsRaise(lon) THEN lon
          ELSE OsmReverseGeocode(lat, lon, net)) :
            lat \in {FloatItem(kwargs, "lat")}, lon \in {FloatItem(kwargs, "lon")}})

\* the body of OpenStreetMapTool.run (lines 59-77)
OsmToolBody(action, kwargs, net) ==
    CASE action = PyStr("geocode") -> OsmGeocode(Get(kwargs, "query"), GeoAt(net, 1))
      [] action = PyStr("reverse_geocode") -> ReverseAction(kwargs, net)
      [] action = PyStr("route") ->
            OsmRoute(Get(kwargs, "origin"), Get(kwargs, "destination"), net)
      [] action = PyStr("matrix") ->
            IF ~Truthy(Get(kwargs, "places"))
            THEN PyDict(<< <<"error", PyStr("Matrix requires a list of places.")>> >>)
            ELSE OsmMatrix(Get(kwargs, "places"), net)
      [] OTHER -> PyDict(<< <<"error", PyStr("Unsupported action: " \o PyText(action))>> >>)

\* OpenStreetMapTool.run
OsmToolRun(action, kwargs, net) == TryExcept(OsmToolBody(action, kwargs, net))

\* self.tools
ToolNames == {"dummy", "osm"}

\* tool.run(action, **kwargs) for the registered tool of that name
ToolRun(tool, action, kwargs, net) ==
    IF tool = "dummy" THEN DummyToolRun(action, kwargs) ELSE OsmToolRun(action, kwargs, net)

\* lines 212-213 of the run loop: the registry lookup and the call of the tool
Dispatching(p, net) ==
    IF p.t # "dict" THEN Raise("TypeError")                       \* plan["tool"]
    ELSE IF "tool" \notin DOMAIN p.v THEN Raise("KeyError")
    ELSE IF p.v["tool"].t \in {"list", "dict"} THEN Raise("TypeError")   \* unhashable key
    ELSE IF ~(p.v["tool"].t = "str" /\ p.v["tool"].v \in ToolNames)
    THEN Raise("AttributeError")                                   \* None.run
    ELSE IF "action" \notin DOMAIN p.v \/ "params" \notin DOMAIN p.v THEN Raise("KeyError")
    ELSE IF p.v["params"].t # "dict" THEN Raise("TypeError")      \* ** of a non-mapping
    ELSE IF {"self", "action"} \cap DOMAIN p.v["params"].v # {}
    THEN Raise("TypeError")                                        \* a parameter given twice
    ELSE ToolRun(p.v["tool"].v, p.v["action"], p.v["params"], net)

----------------------------------------------------------------------------
(* The run loop of AssistantAgent (lines 198-216) *)

\* the texts typed at the prompt
Messages == {
    "where is central park", "Where is the Louvre located", "where is",
    "where is the matrix for a, b",
    "what is at 40.78, -73.96", "what is at 1.2.3 -", "what is at central park",
    "find coffee near central park", "find matrix near park",
    "give me a route from paris to berlin", "give me a route from a to b to c",
    "matrix", "matrix for", "matrix for , ,", "matrix for paris, berlin",
    "travel matrix paris,,rome", "matrixes for a, b",
    "again", "repeat", "same", "REPEAT", " Again ", "repeat that",
    "hello", "quit", "Exit" }

\* what client.chat answers: a text, or an exception of the HTTP client
LlmAnswers == {
    PyStr("{\"tool\":\"osm\",\"action\":\"geocode\",\"params\":{\"query\":\"Rome\"}}"),
    PyStr("The answer is {\"tool\":\"osm\",\"action\":\"geocode\",\"params\":{\"query\":\"Rome\"}} - done"),
    PyStr("Sure: {\"tool\":\"dummy\"} ok"),
    PyStr("{\"tool\":\"foo\",\"action\":\"geocode\",\"params\":{\"query\":\"Rome\"}}"),
    PyStr("{\"tool\":\"osm\",\"action\":\"fly\",\"params\":{}}"),
    PyStr("{\"tool\":\"osm\",\"error\":\"none\"}"),
    PyStr("{\"tool\":\"dummy\",\"action\":\"route\",\"params\":{\"origin\":[40.77,-73.98],\"destination\":\"library\"}}"),
    PyStr("{\"action\":\"geocode\"}"),
    PyStr("no braces here"),
    PyStr("5"),
    PyStr("null"),
    PyStr("[\"tool\"]"),
    PyStr("\"use the osm tool\""),
    Raise("RequestException") }

\* the most Nominatim searches one operation may see answered differently
MaxGeoCalls == 2

GeoOutcomes == {"fail", "none", "one", "junk_then_one"}

\* the outcomes of the request of a geocode called by itself
SearchOutcomes == GeoOutcomes \cup {"fail_mute"}
OtherOutcomes == {"fail", "ok", "empty"}
NetScenarios == [geo : [1..MaxGeoCalls -> GeoOutcomes], other : OtherOutcomes]

\* no operation is applied directly in the run loop
NoNet == [geo |-> <<>>, other |-> "unset"]
NoCall == [op |-> "none", action |-> PyNone, args |-> PyNone, net |-> NoNet]

Init == /\ pc = "input"
        /\ last_plan = PyNone
        /\ msg = ""
        /\ llm_out = PyNone
        /\ plan = PyNone
        /\ result = PyNone
        /\ last_before = PyNone
        /\ call = NoCall
        /\ ret = PyNone

\* lines 202-204: quit or exit ends the loop
Quit(m) ==
    /\ pc = "input"
    /\ lower(m) \in {"quit", "exit"}
    /\ pc' = "exited"
    /\ msg' = m
    /\ UNCHANGED <<last_plan, llm_out, plan, result, last_before, call, ret>>

\* lines 202-210: a text is read and interpreted; an exception ends the
\* process, an error mapping ends the turn, a plan goes on to the dispatch
Interpret(m, answer) ==
    /\ pc = "input"
    /\ lower(m) \notin {"quit", "exit"}
    /\ \E r \in {interpret(m, last_plan, answer)} :
       \E failed \in {IF IsRaise(r.ret) THEN r.ret ELSE py_in("error", r.ret)} :
           /\ msg' = m
           /\ llm_out' = IF r.llm THEN answer ELSE PyNone
           /\ plan' = r.ret
           /\ last_plan' = r.last
           /\ last_before' = last_plan
           /\ pc' = IF IsRaise(failed) THEN "crashed"
                    ELSE IF failed.v THEN "report" ELSE "dispatch"
    /\ UNCHANGED <<result, call, ret>>

\* lines 212-213: the plan is dispatched to its tool
Dispatch(net) ==
    /\ pc = "dispatch"
    /\ \E r \in {Dispatching(plan, net)} :
           /\ result' = r
           /\ pc' = IF IsRaise(r) THEN "crashed" ELSE "report"
    /\ UNCHANGED <<last_plan, msg, llm_out, plan, last_before, call, ret>>

\* lines 209-210 and 215-216: the outcome is printed and the loop returns to
\* input(); the locals of the turn are dead, plan keeps its value until the
\* next interpret assigns it
Report ==
    /\ pc = "report"
    /\ pc' = "input"
    /\ msg' = ""
    /\ llm_out' = PyNone
    /\ result' = PyNone
    /\ last_before' = PyNone
    /\ UNCHANGED <<last_plan, plan, call, ret>>

Next ==
    \/ \E m \in Messages : Quit(m)
    \/ \E m \in Messages :
          \E answer \in (IF HardRules(m, last_plan).matched THEN {PyNone} ELSE LlmAnswers) :
              Interpret(m, answer)
    \/ \E net \in NetScenarios : Dispatch(net)
    \/ Report

Spec == Init /\ [][Next]_vars

----------------------------------------------------------------------------
(* The JSON extractor applied to texts *)

RomeText == "{\"tool\":\"osm\",\"action\":\"geocode\",\"params\":{\"query\":\"Rome\"}}"
\* the literal of the specification, its dash written in ASCII
RomeLiteral == "The answer is " \o RomeText \o " - done"
RomeObject == Plan("osm", "geocode", << <<"query", PyStr("Rome")>> >>)

TextPrefixes == {"", "The answer is ", "x} "}
TextCores == {
    RomeText, "{\"tool\":\"osm\"}", "{bad}", "{\"a\":1} {\"tool\":\"osm\"}",
    "{bad} {\"tool\":\"dummy\"}", "plain prose", "[1, 2]", "42",
    "{\"tool\": \"osm\"", "\"text\"" }
TextSuffixes == {"", " - done", " {"}
ExtractTexts == {p \o c \o x : p \in TextPrefixes, c \in TextCores, x \in TextSuffixes}

AgentIdle ==
    /\ last_plan = PyNone /\ msg = "" /\ llm_out = PyNone /\ plan = PyNone
    /\ result = PyNone /\ last_before = PyNone

InitExtract ==
    /\ pc = "call"
    /\ call \in {[op |-> "extract", action |-> PyNone, args |-> PyStr(t), net |-> NoNet] :
                    t \in ExtractTexts}
    /\ ret = PyNone
    /\ AgentIdle

\* _extract_json(text)
ApplyExtract ==
    /\ pc = "call" /\ call.op = "extract"
    /\ ret' = _extract_json(call.args.v)
    /\ pc' = "returned"
    /\ UNCHANGED <<last_plan, msg, llm_out, plan, result, last_before, call>>

NextExtract == ApplyExtract

SpecExtract == InitExtract /\ [][NextExtract]_vars

----------------------------------------------------------------------------
(* The tool adapters and the backends applied to arguments *)

ToolActions == {PyStr("geocode"), PyStr("reverse_geocode"), PyStr("route"), PyStr("poi"),
                PyStr("matrix"), PyStr("fly"), PyStr("")}

\* the keyword arguments run receives: none is named action or self, which
\* Python binds to the parameters of run
ToolKwargs == {
    PyDict(<<>>),
    PyDict(<< <<"query", PyStr("park")>> >>),
    PyDict(<< <<"query", PyInt(5)>> >>),
    PyDict(<< <<"lat", PyStr("40.78")>>, <<"lon", PyStr("-73.96")>> >>),
    PyDict(<< <<"lat", PyStr("abc")>>, <<"lon", PyStr("1")>> >>),
    PyDict(<< <<"lat", PyInt(1)>> >>),
    PyDict(<< <<"origin", PyStr("park")>>, <<"destination", PyStr("library")>> >>),
    PyDict(<< <<"origin", PyList(<<PyFloat(4077, 2), PyFloat(-7398, 2)>>)>>,
              <<"destination", PyDict(<< <<"lat", PyFloat(4078, 2)>>, <<"lon", PyFloat(-7396, 2)>> >>)>> >>),
    PyDict(<< <<"origin", PyList(<<PyStr("x"), PyInt(1)>>)>>, <<"destination", PyStr("park")>> >>),
    PyDict(<< <<"places", PyList(<<PyStr("paris"), PyStr("berlin")>>)>> >>),
    PyDict(<< <<"places", PyInt(5)>> >>),
    PyDict(<< <<"places", PyList(<<>>)>> >>),
    PyDict(<< <<"query", PyStr("food")>>, <<"near", PyStr("park")>> >>),
    PyDict(<< <<"query", PyStr("coffee")>>, <<"near", PyList(<<PyFloat(488566, 4), PyFloat(23522, 4)>>)>> >>) }

\* location references given to _resolve
Locations == {
    PyStr("paris"), PyStr("park"), PyStr(""), PyNone, PyInt(5),
    PyList(<<PyFloat(4077, 2), PyFloat(-7398, 2)>>),
    PyList(<<PyStr("x"), PyInt(1)>>),
    PyList(<<PyInt(1), PyInt(2), PyInt(3)>>),
    PyDict(<< <<"lat", PyStr("40.78")>>, <<"lon", PyStr("-73.96")>> >>),
    PyDict(<< <<"lat", PyInt(1)>> >>) }

PlaceLists == {
    PyList(<<>>), PyList(<<PyStr("paris")>>), PyList(<<PyStr("paris"), PyStr("berlin")>>),
    PyList(<<PyList(<<PyInt(1), PyInt(2)>>), PyStr("rome")>>) }

\* every surface form registered in the category synonym table
SurfaceForms ==
    UNION {{CategorySynonyms[c][i] : i \in 1..Len(CategorySynonyms[c])} : c \in DOMAIN CategorySynonyms}

\* the form without one trailing s
WithoutOneS(s) == IF s # "" /\ Ch(s, Len(s)) = "s" THEN SubSeq(s, 1, Len(s) - 1) ELSE s

\* the queries given to search_poi: the surface forms with and without one
\* trailing s, a letter found in every name, texts matching nothing, and
\* absent or empty queries
PoiQueries ==
    {PyStr(f) : f \in SurfaceForms}
    \cup {PyStr(WithoutOneS(f)) : f \in SurfaceForms}
    \cup {PyStr(f \o "s") : f \in SurfaceForms}
    \cup {PyStr("c"), PyStr(" Park "), PyStr("zoo"), PyStr(""), PyNone}

\* the near arguments given to search_poi: names of the catalog, coordinates as
\* a pair and as a mapping, a name the catalog lacks, a value that is no
\* location reference, absent or empty ones, a pair whose latitude is the
\* text of no number, and a pair whose latitude is no float
PoiNears ==
    {PyNone, PyStr(""), PyStr("park"), PyStr("library"), PyStr("nowhere"), PyInt(5),
     PyList(<<PyFloat(4078, 2), PyFloat(-7396, 2)>>),
     PyDict(<< <<"lat", PyStr("40.74")>>, <<"lon", PyStr("-73.99")>> >>),
     PyList(<<PyFloat(488566, 4), PyFloat(23522, 4)>>),
     PyList(<<PyStr("nan"), PyStr("-73.99")>>),
     PyList(<<PyStr("x"), PyInt(1)>>)}

MkCall(op, action, args) == [op |-> op, action |-> action, args |-> args, net |-> NoNet]

ToolCalls ==
    {MkCall(op, a, k) : op \in {"dummy_tool", "osm_tool"}, a \in ToolActions, k \in ToolKwargs}
    \cup {MkCall(op, PyNone, l) : op \in {"dummy_resolve", "osm_resolve"}, l \in Locations}
    \cup {MkCall("osm_route", PyNone, PyList(<<a, b>>)) :
             a \in {PyStr("paris"), PyList(<<PyInt(1), PyInt(2)>>)}, b \in {PyStr("berlin"), PyInt(5)}}
    \cup {MkCall("osm_matrix", PyNone, l) : l \in PlaceLists}
    \cup {MkCall("search_poi", PyNone, PyList(<<q, n>>)) : q \in PoiQueries, n \in PoiNears}
    \cup {MkCall("osm_geocode", PyNone, a) : a \in {PyStr("Paris"), PyStr(""), PyNone, PyInt(5)}}

InitTools ==
    /\ pc = "call"
    /\ call \in ToolCalls
    /\ ret = PyNone
    /\ AgentIdle

Returned(value, net) ==
    /\ ret' = value
    /\ call' = [call EXCEPT !.net = net]
    /\ pc' = "returned"
    /\ UNCHANGED <<last_plan, msg, llm_out, plan, result, last_before>>

\* DummyMapTool().run(action, **kwargs)
ApplyDummyTool ==
    /\ pc = "call" /\ call.op = "dummy_tool"
    /\ Returned(DummyToolRun(call.action, call.args), NoNet)

\* OpenStreetMapTool().run(action, **kwargs)
ApplyOsmTool(net) ==
    /\ pc = "call" /\ call.op = "osm_tool"
    /\ Returned(OsmToolRun(call.action, call.args, net), net)

\* DummyMapServer()._resolve(loc)
ApplyDummyResolve ==
    /\ pc = "call" /\ call.op = "dummy_resolve"
    /\ Returned(DummyResolve(call.args), NoNet)

\* OpenStreetMapServer()._resolve(loc)
ApplyOsmResolve(net) ==
    /\ pc = "call" /\ call.op = "osm_resolve"
    /\ Returned(OsmResolve(call.args, GeoAt(net, 1)), net)

\* OpenStreetMapServer().route(origin, destination)
ApplyOsmRoute(net) ==
    /\ pc = "call" /\ call.op = "osm_route"
    /\ Returned(OsmRoute(call.args.v[1], call.args.v[2], net), net)

\* OpenStreetMapServer().matrix(places)
ApplyOsmMatrix(net) ==
    /\ pc = "call" /\ call.op = "osm_matrix"
    /\ Returned(OsmMatrix(call.args, net), net)

\* OpenStreetMapServer().geocode(address)
ApplyOsmGeocode(outcome) ==
    /\ pc = "call" /\ call.op = "osm_geocode"
    /\ Returned(OsmGeocode(call.args, outcome), [geo |-> <<outcome>>, other |-> "unset"])

\* DummyMapServer().search_poi(query, near)
ApplySearchPoi ==
    /\ pc = "call" /\ call.op = "search_poi"
    /\ Returned(search_poi(call.args.v[1], call.args.v[2]), NoNet)

NextTools ==
    \/ ApplySearchPoi
    \/ ApplyDummyTool
    \/ \E net \in NetScenarios : ApplyOsmTool(net)
    \/ ApplyDummyResolve
    \/ \E net \in NetScenarios : ApplyOsmResolve(net)
    \/ \E outcome \in SearchOutcomes : ApplyOsmGeocode(outcome)
    \/ \E net \in NetScenarios : ApplyOsmRoute(net)
    \/ \E net \in NetScenarios : ApplyOsmMatrix(net)

SpecTools == InitTools /\ [][NextTools]_vars

----------------------------------------------------------------------------
(* The claims *)

\* a mapping with an error key
IsErrorMapping(x) == x.t = "dict" /\ "error" \in DOMAIN x.v

\* a value interpret returned without an error key
ReturnedPlan(x) == x.t \in {"dict", "list", "str"} /\ py_in("error", x) = PyBool(FALSE)

\* the turn in progress has interpreted its text
Interpreted == pc \in {"dispatch", "report", "crashed"}

\* the first of the seven rules whose textual pattern matches the lowered text
FirstPattern(low) ==
    IF MatchWhereIs(low).ok THEN 1
    ELSE IF MatchWhatIsAt(low).ok THEN 2
    ELSE IF MatchTwoGroups(low, "find ", " near ").ok THEN 3
    ELSE IF MatchTwoGroups(low, "give me a route from ", " to ").ok THEN 4
    ELSE IF Contains(low, "matrix") THEN 5
    ELSE IF low \in RepeatWords THEN 6
    ELSE 7

IsPlanOf(x, tool, action) ==
    /\ x.t = "dict" /\ DOMAIN x.v = {"tool", "action", "params"}
    /\ x.v["tool"] = PyStr(tool) /\ x.v["action"] = PyStr(action)

\* C1: once interpret has returned a plan P without an error key, the input
\* again, repeat or same in the very next turn returns exactly P.
C1_RepeatReturnsLastSuccess ==
    [][(pc = "input" /\ ReturnedPlan(plan) /\ msg' \in RepeatWords) => plan' = plan]_vars

\* C2: with no plan retained, interpret on again, repeat or same (any case)
\* returns an error mapping, whatever text the model answers.
C2_RepeatWithoutPlanFails ==
    [][(/\ pc = "input" /\ ~Truthy(last_plan)
        /\ lower(strip(msg')) \in RepeatWords /\ ~IsRaise(llm_out'))
       => IsErrorMapping(plan')]_vars

\* C3: a turn that fails (interpret returned a mapping with an error key, or
\* the dispatched plan yielded an error) leaves last_plan as it was before the
\* turn.
C3_FailedTurnKeepsLastPlan ==
    (pc \in {"report", "crashed"} /\ (IsErrorMapping(plan) \/ IsErrorMapping(result)))
        => last_plan = last_before

\* C4: the result of interpret is that of the first rule, in the order where-is,
\* what-is-at, find-near, route, matrix, repeat, whose pattern matches the text,
\* and the model is invoked only when none of the six patterns matches.
C4_FirstMatchingRuleWins ==
    Interpreted =>
        LET k == FirstPattern(lower(strip(msg)))
        IN  /\ k = 1 => IsPlanOf(plan, "osm", "geocode")
            /\ k = 2 => IsPlanOf(plan, "osm", "reverse_geocode")
            /\ k = 3 => IsPlanOf(plan, "dummy", "poi")
            /\ k = 4 => IsPlanOf(plan, "osm", "route")
            /\ k = 5 => IsPlanOf(plan, "osm", "matrix") \/ IsErrorMapping(plan)
            /\ k = 6 => plan = last_before \/ IsErrorMapping(plan)
            /\ llm_out # PyNone => k = 7
            /\ msg = "where is central park"
                  => plan = Plan("osm", "geocode", << <<"query", PyStr("central park")>> >>)
            /\ msg = "what is at 40.78, -73.96"
                  => plan = Plan("osm", "reverse_geocode",
                                 << <<"lat", PyStr("40.78")>>, <<"lon", PyStr("-73.96")>> >>)

\* C5: the extractor returns the object embedded in the prose of RomeLiteral,
\* with its nested params, and none for prose without braces.
C5_ExtractsEmbeddedObject ==
    (pc = "returned" /\ call.op = "extract") =>
        /\ call.args.v = RomeLiteral => ret = RomeObject
        /\ (/\ Contains(call.args.v, "plain prose")
            /\ ~Contains(call.args.v, "{") /\ ~Contains(call.args.v, "}")) => ret = PyNone

\* C6: dispatching a plan whose tool is not in the registry returns an error
\* mapping: nothing is raised and last_plan is not modified.
C6_UnknownToolIsAnError ==
    [][(/\ pc = "dispatch" /\ plan.t = "dict" /\ "tool" \in DOMAIN plan.v
        /\ ~(plan.v["tool"].t = "str" /\ plan.v["tool"].v \in ToolNames))
       => (IsErrorMapping(result') /\ pc' = "report" /\ last_plan' = last_plan)]_vars

\* what the claim calls an unresolvable-location error
Unresolvable(x) ==
    /\ IsErrorMapping(x)
    /\ x.v["error"].t = "str" /\ Contains(x.v["error"].v, "Could not resolve")

\* C7: _resolve of a name returns the first geocode result, and none when the
\* geocode yields no result or fails; route and matrix then report an
\* unresolvable location when the geocoding of a name fails in transport.
C7_ResolveNoneOnGeocodeError ==
    pc = "returned" =>
        /\ (call.op = "osm_resolve" /\ call.args.t = "str") =>
              LET res == OsmGeocode(call.args, GeoAt(call.net, 1))
              IN  IF res.v = <<>> \/ IsErrorMapping(res.v[1]) THEN ret = PyNone
                  ELSE ret = res.v[1]
        /\ (call.op = "dummy_resolve" /\ call.args.t = "str") =>
              LET res == DummyGeocode(call.args)
              IN  IF res.v = <<>> THEN ret = PyNone ELSE ret = res.v[1]
        /\ (/\ call.op = "osm_route" /\ call.args.v[1].t = "str"
            /\ GeoAt(call.net, 1) = "fail") => Unresolvable(ret)
        /\ (/\ call.op = "osm_matrix" /\ call.args.v # <<>> /\ call.args.v[1].t = "str"
            /\ GeoAt(call.net, 1) = "fail") => Unresolvable(ret)

\* C8: on the fallback path interpret returns the extracted value when it is an
\* object with a tool key, and otherwise an error mapping with the raw text of
\* the model; it does not raise.
C8_FallbackAcceptsOnlyToolObjects ==
    (Interpreted /\ llm_out.t = "str") =>
        LET e == _extract_json(llm_out.v)
        IN  IF e.t = "dict" /\ "tool" \in DOMAIN e.v THEN plan = e
            ELSE /\ IsErrorMapping(plan)
                 /\ "raw" \in DOMAIN plan.v /\ plan.v["raw"] = llm_out

\* the places the claim expects: the non-empty comma-separated items behind the
\* word matrix, an optional for removed
ExpectedPlaces(low) ==
    LET rest == strip(LineFrom(low, Find(low, "matrix", 1) + 6))
        items == IF rest = "for" THEN ""
                 ELSE IF StartsAt(rest, 1, "for ") THEN From(rest, 5)
                 ELSE rest
    IN  StripNonEmpty(split(items, ","))

\* matrix stands as a word: the text ends behind it or a blank follows
MatrixIsWord(low) ==
    LET i == Find(low, "matrix", 1)
    IN  i + 6 > Len(low) \/ Ch(low, i + 6) = " "

\* C9: an input that reaches the matrix rule returns the osm matrix plan of the
\* places behind the word matrix, and an error mapping when there is none
\* (matrix, matrix for, matrix for , ,); the model is not invoked.
C9_MatrixPlacesOrFailure ==
    (/\ Interpreted /\ FirstPattern(lower(strip(msg))) = 5
     /\ MatrixIsWord(lower(strip(msg)))) =>
        LET places == ExpectedPlaces(lower(strip(msg)))
        IN  /\ llm_out = PyNone
            /\ IF places = <<>> THEN IsErrorMapping(plan)
               ELSE plan = Plan("osm", "matrix", << <<"places", PyList(places)>> >>)

SupportedActions(op) ==
    IF op = "dummy_tool" THEN {"geocode", "route", "poi"}
    ELSE {"geocode", "reverse_geocode", "route", "matrix"}

\* the body of run for the call of the state
BodyOfCall ==
    IF call.op = "dummy_tool" THEN DummyToolBody(call.action, call.args)
    ELSE OsmToolBody(call.action, call.args, call.net)

Resolves(loc, outcome) ==
    IF loc.t = "str"
    THEN \E res \in {OsmGeocode(loc, outcome)} : res.v # <<>> /\ ~IsErrorMapping(res.v[1])
    ELSE ResolveCoords(loc).t = "dict"

RECURSIVE RequestsUpTo(_, _)
\* the Nominatim searches the places 1..k need
RequestsUpTo(places, k) ==
    IF k = 0 THEN 0 ELSE RequestsUpTo(places, k - 1) + Requests(places[k])

\* the first place, in list order, that does not resolve; 0 when all resolve
FirstUnresolved(places, net) ==
    LET bad == {k \in 1..Len(places) :
                   ~Resolves(places[k], GeoAt(net, RequestsUpTo(places, k - 1) + 1))}
    IN  IF bad = {} THEN 0 ELSE CHOOSE k \in bad : \A j \in bad : k <= j

\* the list of places of the matrix call of the state: given to the backend, or
\* given to the osm adapter under the key places
MatrixPlaces ==
    IF call.op = "osm_matrix" THEN call.args ELSE Get(call.args, "places")

IsMatrixCall ==
    /\ pc = "returned"
    /\ \/ call.op = "osm_matrix"
       \/ call.op = "osm_tool" /\ call.action = PyStr("matrix")
    /\ MatrixPlaces.t = "list"

\* C11: matrix resolves its places in list order and fails fast: at the first
\* place that does not resolve it returns an error mapping, resolves no later
\* place and sends no request to the table service; a matrix is returned only
\* when every place resolved, and the adapter answers an empty list of places
\* with an error mapping.
C11_MatrixFailsFast ==
    IsMatrixCall =>
        LET places == MatrixPlaces.v
            u == FirstUnresolved(places, call.net)
            reqs == MatrixRequests(MatrixPlaces, call.net)
        IN  /\ u > 0 => /\ IsErrorMapping(ret)
                        /\ reqs.geo = RequestsUpTo(places, u)
                        /\ ~reqs.table
            /\ (u = 0 /\ places # <<>>) => reqs.geo = RequestsUpTo(places, Len(places))
            /\ (ret.t = "dict" /\ "durations_s" \in DOMAIN ret.v) => u = 0
            /\ (call.op = "osm_tool" /\ places = <<>>) => IsErrorMapping(ret)

----------------------------------------------------------------------------
(* search_poi *)

IsPoiCall == pc = "returned" /\ call.op = "search_poi"

PoiQuery == call.args.v[1]

PoiNear == call.args.v[2]

\* line 93: the center search_poi measures from
PoiCenter == IF Truthy(PoiNear) THEN DummyResolve(PoiNear) ELSE PyNone

\* the places of the catalog that match the query, by lines 90-108
MatchingPlaces ==
    IF ~Truthy(PoiQuery) THEN {}
    ELSE The({{i \in 1..Len(DummyPlaces) : Matches(i, q, rstrip_s(q))} : q \in {strip(lower(PoiQuery.v))}})

\* the place of the catalog a result entry names
PlaceOf(entry) == CHOOSE i \in 1..Len(DummyPlaces) : DummyPlaces[i].name = entry.v["name"].v

\* the place is at most 5 km from the center
Within5Km(i, center) ==
    The({h.m >= 0 /\ ~h.far : h \in {Haversine(center, Here(i))}})

\* the entry carries a distance_km that is a number of at most 5 km
CarriesDistance(entry) ==
    /\ "distance_km" \in DOMAIN entry.v
    /\ ~IsNaN(entry.v["distance_km"])
    /\ entry.v["distance_km"].v <= 5 * Pow10(entry.v["distance_km"].e)

\* C12: when the near argument of search_poi resolves to a center, every
\* returned entry carries distance_km and lies at most 5 km from the center, the
\* entries are in non-decreasing order of distance_km, and every matching place
\* of the catalog within 5 km is among them.
C12_NearSortsWithinRadius ==
    (IsPoiCall /\ PoiCenter.t = "dict") =>
        /\ ret.t = "list"
        /\ \A k \in 1..Len(ret.v) :
               /\ CarriesDistance(ret.v[k])
               /\ Within5Km(PlaceOf(ret.v[k]), PoiCenter)
        /\ \A k \in 1..(Len(ret.v) - 1) :
               /\ CarriesDistance(ret.v[k]) /\ CarriesDistance(ret.v[k + 1])
               /\ ret.v[k].v["distance_km"].v <= ret.v[k + 1].v["distance_km"].v
        /\ \A i \in MatchingPlaces :
               Within5Km(i, PoiCenter) => \E k \in 1..Len(ret.v) : PlaceOf(ret.v[k]) = i

\* the same property for the centers that are numbers
C12_NumericCenters ==
    (IsPoiCall /\ PoiCenter.t = "dict" /\ (IsNaN(PoiCenter.v["lat"]) \/ IsNaN(PoiCenter.v["lon"])))
    \/ C12_NearSortsWithinRadius

\* a search around a numeric center that drops a matching place beyond 5 km and
\* returns the others in another order than the catalog's
C12_Witness ==
    /\ IsPoiCall /\ PoiCenter.t = "dict" /\ ret.t = "list"
    /\ Cardinality(MatchingPlaces) = 4
    /\ [k \in 1..Len(ret.v) |-> PlaceOf(ret.v[k])] = <<4, 2, 3>>

\* the catalog entries of a result
EntrySet(found) == IF found.t = "list" THEN {found.v[k] : k \in 1..Len(found.v)} ELSE {found}

\* the query is a surface form of the synonym table, or one with an s added
\* to it or taken from it
IsFormQuery ==
    /\ IsPoiCall /\ PoiQuery.t = "str"
    /\ \E f \in SurfaceForms : PoiQuery.v \in {f, f \o "s", WithoutOneS(f)}

\* C13: search_poi does not tell singular from plural: for every surface form
\* of the category synonym table the query and the query with one trailing s
\* added or removed return the same set of catalog entries, for the same near
\* argument.
C13_PluralInsensitive ==
    IsFormQuery =>
        /\ EntrySet(ret) = EntrySet(search_poi(PyStr(PoiQuery.v \o "s"), PoiNear))
        /\ PoiQuery.v \in SurfaceForms =>
               EntrySet(ret) = EntrySet(search_poi(PyStr(WithoutOneS(PoiQuery.v)), PoiNear))

\* a plural the synonym table does not list finds the place its singular finds
C13_Witness ==
    /\ IsPoiCall /\ PoiQuery = PyStr("foods") /\ ret.t = "list"
    /\ {e.v["name"].v : e \in EntrySet(ret)} = {"Alice's Restaurant"}
    /\ EntrySet(ret) = EntrySet(search_poi(PyStr("food"), PoiNear))

----------------------------------------------------------------------------
(* geocode of the live backend *)

\* geocode has returned from a call that sent its request
IsGeocodeCall == pc = "returned" /\ call.op = "osm_geocode" /\ Truthy(call.args)

\* the request of the geocode call failed in transport
TransportFailed == call.net.geo[1] \in {"fail", "fail_mute"}

\* str(e) of the exception the transport raised
CauseMessage == SearchResponse(call.net.geo[1]).v["error"]

\* C14: when the request of geocode fails in transport, geocode does not raise
\* and returns a non-empty list whose first element is a mapping with the key
\* 'error' that carries the message of the cause.
C14_GeocodeReportsTransportError ==
    (IsGeocodeCall /\ TransportFailed) =>
        /\ ret.t = "list" /\ ret.v # <<>>
        /\ IsErrorMapping(ret.v[1])
        /\ ret.v[1].v["error"] = CauseMessage

\* the same property for the failures that have a message
C14_FailuresWithMessage ==
    (IsGeocodeCall /\ TransportFailed /\ CauseMessage = PyStr("")) \/ C14_GeocodeReportsTransportError

\* a failed request reported as the error entry
C14_Witness ==
    /\ IsGeocodeCall /\ TransportFailed
    /\ ret = PyList(<<PyDict(<< <<"error", PyStr("boom")>> >>)>>)

----------------------------------------------------------------------------
(* The JSON extractor *)

IsExtractCall == pc = "returned" /\ call.op = "extract"

\* the brace-delimited candidates of the text of the call, in order of appearance
Candidates == findall_braces(call.args.v, 1)

\* the indexes of the candidates that parse
Parsing == {k \in 1..Len(Candidates) : ~IsRaise(json_loads(Candidates[k]))}

\* C15: the extractor returns the parse of the whole text when the whole text
\* is valid JSON; otherwise the parse of the first brace-delimited candidate, in
\* order of appearance, that parses, skipping the candidates before it that do
\* not; none when no candidate parses. It never raises.
C15_ExtractorOrder ==
    IsExtractCall =>
        /\ ~IsRaise(ret)
        /\ ~IsRaise(json_loads(call.args.v)) => ret = json_loads(call.args.v)
        /\ IsRaise(json_loads(call.args.v)) =>
              /\ Parsing = {} => ret = PyNone
              /\ \A k \in Parsing :
                     (\A j \in 1..(k - 1) : j \notin Parsing) => ret = json_loads(Candidates[k])

\* a text that is no JSON, whose first candidate does not parse and whose second
\* candidate is returned
C15_Witness ==
    /\ IsExtractCall
    /\ IsRaise(json_loads(call.args.v))
    /\ Len(Candidates) >= 2 /\ 1 \notin Parsing /\ 2 \in Parsing
    /\ ret = PyDict(<< <<"tool", PyStr("dummy")>> >>)

----------------------------------------------------------------------------
(* search_poi without a center *)

\* the matching places in catalog order, as entries without a distance
PlainMatches ==
    The({[k \in 1..Len(kept) |-> Entry(kept[k], PyNone)] :
            kept \in {SelectSeq2(Len(DummyPlaces), MatchingPlaces)}})

\* C16: when the near argument of search_poi is absent or does not resolve to
\* a coordinate, the result is the list of the catalog entries that match the
\* query, in catalog order, without distance_km and without exclusion by the
\* radius; an empty or absent query returns the empty list.
C16_NoCenterListsAllMatches ==
    IsPoiCall =>
        /\ PoiCenter.t # "dict" => ret = PyList(PlainMatches)
        /\ ~Truthy(PoiQuery) => ret = PyList(<<>>)

\* the same property for the near arguments whose resolution raises nothing
C16_ResolutionReturns ==
    (IsPoiCall /\ IsRaise(PoiCenter) /\ Truthy(PoiQuery)) \/ C16_NoCenterListsAllMatches

\* a search without a center that returns the four places in catalog order,
\* Central Park among them
C16_Witness ==
    /\ IsPoiCall /\ PoiCenter = PyNone /\ PoiNear = PyStr("nowhere")
    /\ ret.t = "list" /\ Len(ret.v) = 4
    /\ [k \in 1..4 |-> PlaceOf(ret.v[k])] = <<1, 2, 3, 4>>
    /\ \A k \in 1..4 : "distance_km" \notin DOMAIN ret.v[k].v

----------------------------------------------------------------------------
(* The plans interpret returns *)

\* a mapping with the keys the dispatch step reads, params being a mapping
IsCompletePlan(x) ==
    /\ x.t = "dict"
    /\ {"tool", "action", "params"} \subseteq DOMAIN x.v
    /\ x.v["params"].t = "dict"

\* the dispatch step of the turn failed on a key the plan lacks
DispatchKeyError == pc = "crashed" /\ IsRaise(result) /\ result.v = "KeyError"

\* C17: every value interpret returns without an error key, and every value
\* retained as last_plan, is a mapping with the keys tool, action and params,
\* params being a mapping, and the dispatch step never fails on a missing key.
C17_PlansAreDispatchable ==
    /\ (Interpreted /\ ReturnedPlan(plan)) => IsCompletePlan(plan)
    /\ last_plan # PyNone => IsCompletePlan(last_plan)
    /\ ~DispatchKeyError

\* the same property for the turns the hard rules answer
C17_HardRulePlans ==
    (Interpreted /\ llm_out = PyNone /\ last_before = PyNone /\ ReturnedPlan(plan))
        => (IsCompletePlan(plan) /\ ~DispatchKeyError)

\* a turn answered by a hard rule with a complete plan that was dispatched
C17_Witness ==
    /\ pc = "report" /\ llm_out = PyNone /\ ReturnedPlan(plan) /\ IsCompletePlan(plan)
    /\ result # PyNone

====
